---- MODULE Spec2Model ----
(***************************************************************************)
(* Model of CumulativeUsageSensor (src/sensor.py): the in-memory usage     *)
(* record self._state, the JSON file at self._filepath, the wall clock     *)
(* read by datetime.now(), and the operations that touch them:             *)
(* construction/restart (__init__ + _load_persisted), reset_timer, and     *)
(* the state-change listener registered in async_added_to_hass which       *)
(* forwards to _handle_state_change.                                       *)
(*                                                                         *)
(* Time is counted in ticks, Resolution ticks per second (the source has   *)
(* 10^6 microseconds per second).  usage_in_sec is kept in the same exact  *)
(* ticks: timedelta arithmetic is exact in the source, the IEEE rounding   *)
(* of the running float sum is not modelled.  datetime.now() is modelled   *)
(* as a non-decreasing clock; two reads in one call may differ.            *)
(* async_write_ha_state() hands the value to Home Assistant and changes    *)
(* none of the sensor's own state; it is not modelled.                     *)
(***************************************************************************)
EXTENDS Integers, Sequences, FiniteSets, TLC

VARIABLES
    state,      \* self._state: None or a dict
    file,       \* what is stored at self._filepath
    now,        \* latest value returned by datetime.now()
    last,       \* history: the last operation, its inputs and its pre-state
    deltas,     \* history: sum of the deltas delivered since the last reset,
                \* followed only while every save has succeeded
    savesOk,    \* history: no _save_persisted has failed so far
    unit,       \* self._attr_native_unit_of_measurement
    peer,       \* a second sensor of the platform: both configurations,
                \* its record and its file
    threads     \* executor jobs in progress on this sensor

vars == <<state, file, now, last, deltas, savesOk, unit, peer, threads>>

\* what the operations of one sensor run one at a time leave alone
setup == <<unit, peer, threads>>

----------------------------------------------------------------------------
(* Bounds *)

Resolution == 2     \* clock ticks per second
ClockStart == 2     \* clock reading when the process first starts
ClockSpan == 1      \* how far the clock is followed past ClockStart
MaxTs == 1          \* event timestamps (last_changed) range over 0..MaxTs
MaxUsage == 2       \* |usage_in_sec| explored, in ticks

----------------------------------------------------------------------------
(* Values *)

MaxClock == ClockStart + ClockSpan

None == [none |-> TRUE]

STATE_ON == "on"
STATE_OFF == "off"
STATE_UNAVAILABLE == "unavailable"
NoState == "none"      \* the notification carries no State object (None)

EntityStates == {STATE_ON, STATE_OFF, STATE_UNAVAILABLE, NoState}

Fields == {"last_reset_at", "last_update_at", "usage_in_sec"}

HasUsage(s) == "usage_in_sec" \in DOMAIN s

\* a record holding all three fields
IsFull(s) == DOMAIN s = Fields

Abs(x) == IF x < 0 THEN -x ELSE x

----------------------------------------------------------------------------
(* Wire encoding used by json.dump(..., default=isoconverter) / json.load  *)

\* variant: isoformat(timespec='seconds'), the fraction is never written
IsoFormatSeconds(t) == <<t \div Resolution>>

\* datetime.isoformat(): the fractional part is written only when non-zero
IsoFormat(t) ==
    IF t % Resolution = 0 THEN <<t \div Resolution>>
    ELSE <<t \div Resolution, t % Resolution>>

\* datetime.fromisoformat() accepts a text with or without fraction
ValidIso(x) == Len(x) \in {1, 2}

FromIsoFormat(x) ==
    x[1] * Resolution + (IF Len(x) = 2 THEN x[2] ELSE 0)

\* a JSON number: optional sign, then the magnitude
JsonNumber(n) == [neg |-> n < 0, digits |-> Abs(n)]

ParseNumber(j) == IF j.neg THEN 0 - j.digits ELSE j.digits

\* json.dump(self._state, f, default=isoconverter); None is written as null
JsonDump(s) ==
    IF s = None THEN None
    ELSE [k \in DOMAIN s |->
            IF k = "usage_in_sec" THEN JsonNumber(s[k]) ELSE IsoFormat(s[k])]

----------------------------------------------------------------------------
(* The file *)

NoFile == [exists |-> FALSE]
Garbage == [exists |-> TRUE, json |-> FALSE]     \* not parseable as JSON
JsonFile(obj) == [exists |-> TRUE, json |-> TRUE, obj |-> obj]

\* variant: only the two timestamps are taken from the file
LoadPersistedStampsOnly(f) ==
    IF ~f.exists THEN None
    ELSE IF ~f.json THEN None
    ELSE LET d == f.obj IN
         IF "last_reset_at" \notin DOMAIN d THEN None
         ELSE IF ~ValidIso(d["last_reset_at"]) THEN None
         ELSE IF "last_update_at" \notin DOMAIN d THEN None
         ELSE IF ~ValidIso(d["last_update_at"]) THEN None
         ELSE [k \in DOMAIN d \ {"usage_in_sec"} |-> FromIsoFormat(d[k])]

\* _load_persisted, started from self._state = None as __init__ does
LoadPersisted(f) ==
    IF ~f.exists THEN None
    ELSE IF ~f.json THEN None
    ELSE LET d == f.obj IN
         IF "last_reset_at" \notin DOMAIN d THEN None
         ELSE IF ~ValidIso(d["last_reset_at"]) THEN None
         ELSE IF "last_update_at" \notin DOMAIN d THEN None
         ELSE IF ~ValidIso(d["last_update_at"]) THEN None
         ELSE [k \in DOMAIN d |->
                 IF k = "usage_in_sec" THEN ParseNumber(d[k])
                 ELSE FromIsoFormat(d[k])]

SaveOutcomes == {"ok", "open_failed", "write_failed"}

\* _save_persisted: open(mode="w") truncates, json.dump writes; every
\* exception is caught and logged
SavePersisted(s, f, outcome) ==
    CASE outcome = "ok" -> JsonFile(JsonDump(s))
      [] outcome = "open_failed" -> f
      [] outcome = "write_failed" -> Garbage

\* variant: a failed save discards the in-memory record
AfterSaveDiscards(s, outcome) == IF outcome = "ok" THEN s ELSE None

\* self._state once _save_persisted has returned: the except clause only
\* logs, the record is left as it was
AfterSave(s, outcome) == s

----------------------------------------------------------------------------
(* The record operations *)

\* _default_state: two reads of the clock
DefaultState(n1, n2) ==
    [last_reset_at |-> n1, last_update_at |-> n2, usage_in_sec |-> 0]

\* variant: the two clock readings land in the other fields
ResetStateSwapped(n1, n2) ==
    [last_reset_at |-> n2, last_update_at |-> n1, usage_in_sec |-> 0]

\* the dict assigned by reset_timer: two reads of the clock
ResetState(n1, n2) ==
    [last_reset_at |-> n1, last_update_at |-> n2, usage_in_sec |-> 0]

\* (not self._state) or (not 'usage_in_sec' in self._state)
NeedsDefault(s) == s = None \/ ~HasUsage(s)

\* variant: last_update_at takes the event's timestamp
HandleStateChangeEventStamp(s, t0, t1, n1, n2, n3) ==
    LET diff == t1 - t0
        base == IF NeedsDefault(s) THEN DefaultState(n1, n2) ELSE s
    IN [base EXCEPT !["usage_in_sec"] = @ + diff,
                    !["last_update_at"] = t1]

\* variant: a dict lacking usage_in_sec only gets that key filled in
HandleStateChangeSetDefault(s, t0, t1, n1, n2, n3) ==
    LET diff == t1 - t0
        base == IF s = None THEN DefaultState(n1, n2)
                ELSE IF ~HasUsage(s)
                     THEN [DefaultState(n1, n2) EXCEPT
                              !["last_reset_at"] = s["last_reset_at"]]
                     ELSE s
    IN [base EXCEPT !["usage_in_sec"] = @ + diff,
                    !["last_update_at"] = n3]

\* variant: a negative difference is clamped to zero
HandleStateChangeClamped(s, t0, t1, n1, n2, n3) ==
    LET diff == IF t1 < t0 THEN 0 ELSE t1 - t0
        base == IF NeedsDefault(s) THEN DefaultState(n1, n2) ELSE s
    IN [base EXCEPT !["usage_in_sec"] = @ + diff,
                    !["last_update_at"] = n3]

\* variant: an interval equal to the one just handled is not added again
HandleStateChangeDedup(s, t0, t1, n1, n2, n3) ==
    LET diff == IF last.op = "apply" /\ last.t0 = t0 /\ last.t1 = t1
                THEN 0 ELSE t1 - t0
        base == IF NeedsDefault(s) THEN DefaultState(n1, n2) ELSE s
    IN [base EXCEPT !["usage_in_sec"] = @ + diff,
                    !["last_update_at"] = n3]

\* the body of _handle_state_change after the None checks
HandleStateChange(s, t0, t1, n1, n2, n3) ==
    LET diff == t1 - t0
        base == IF NeedsDefault(s) THEN DefaultState(n1, n2) ELSE s
    IN [base EXCEPT !["usage_in_sec"] = @ + diff,
                    !["last_update_at"] = n3]

\* variant: every change between the two defined states is tracked
MatchesAnyDefined(old, new) ==
    old \in {STATE_ON, STATE_OFF} /\ new \in {STATE_ON, STATE_OFF}

\* the first lines of _handle_state_change: the debug call of line 151
\* reads old_state.last_changed and new_state.last_changed, and only then
\* line 152 tests the two for None
HandlerEntry(old, new) ==
    IF old = NoState \/ new = NoState THEN "raised"
    ELSE IF old = NoState \/ new = NoState THEN "returned"
    ELSE "entered"

\* variant: only to_state is given to the tracker
MatchesToOff(old, new) == new = STATE_OFF

\* async_track_state_change(entity, action, STATE_ON, STATE_OFF):
\* from_state = STATE_ON, to_state = STATE_OFF
Matches(old, new) == old = STATE_ON /\ new = STATE_OFF

----------------------------------------------------------------------------
(* The measurement read by Home Assistant *)

DEFAULT_UNIT_OF_MEASUREMENT == "h"

\* units a configuration may name (cv.string accepts any text)
Units == {"h", "m", "s", "x", "H", "M"}

\* str.lower() on the unit
Lower(u) ==
    CASE u = "H" -> "h"
      [] u = "M" -> "m"
      [] u = "S" -> "s"
      [] OTHER -> u

\* variant: the unit is compared as configured, without lower()
NativeValueNoLower(s, u) ==
    IF s = None THEN [kind |-> "unavailable"]
    ELSE IF ~HasUsage(s) THEN [kind |-> "fault"]
    ELSE LET c == s["usage_in_sec"] IN
         IF u = "h"
         THEN [kind |-> "value", num |-> c, den |-> 3600 * Resolution]
         ELSE IF u = "m"
         THEN [kind |-> "value", num |-> c, den |-> 60 * Resolution]
         ELSE [kind |-> "value", num |-> c, den |-> Resolution]

\* native_value: None when there is no record, KeyError on a dict without
\* usage_in_sec, otherwise the quotient num / den in seconds, minutes or
\* hours (usage_in_sec is held in ticks)
NativeValue(s, u) ==
    IF s = None THEN [kind |-> "unavailable"]
    ELSE IF ~HasUsage(s) THEN [kind |-> "fault"]
    ELSE LET c == s["usage_in_sec"] IN
         IF Lower(u) = "h"
         THEN [kind |-> "value", num |-> c, den |-> 3600 * Resolution]
         ELSE IF Lower(u) = "m"
         THEN [kind |-> "value", num |-> c, den |-> 60 * Resolution]
         ELSE [kind |-> "value", num |-> c, den |-> Resolution]

\* extra_state_attributes: dict(None) raises TypeError, pop raises KeyError
\* on a dict without usage_in_sec
ExtraStateAttributes(s) ==
    IF s = None THEN [kind |-> "fault"]
    ELSE IF ~HasUsage(s) THEN [kind |-> "fault"]
    ELSE [kind |-> "value",
          attrs |-> [k \in DOMAIN s \ {"usage_in_sec"} |-> s[k]]]

\* variant: pop('usage_in_sec') is applied to self._state itself
RecordAfterReadInPlace(s) ==
    IF s # None /\ HasUsage(s)
    THEN [k \in DOMAIN s \ {"usage_in_sec"} |-> s[k]]
    ELSE s

\* self._state after both properties were read: pop works on a copy
RecordAfterRead(s) == s

----------------------------------------------------------------------------
(* Initial states *)

StoredRecords ==
    {[last_reset_at |-> r, last_update_at |-> u, usage_in_sec |-> c] :
        r \in 0..(ClockStart - 1), u \in 0..(ClockStart - 1), c \in 0..1}

Restrict(d, K) == [k \in K |-> d[k]]

\* what may be found at the path when the process first starts: nothing,
\* unparseable bytes, a record written earlier, such a record with fields
\* missing, or with a timestamp text that is not a timestamp
InitialFiles ==
    {NoFile, Garbage}
    \cup {JsonFile(Restrict(JsonDump(r), K)) :
            r \in {x \in StoredRecords : x.last_reset_at <= x.last_update_at},
            K \in SUBSET Fields}
    \cup {JsonFile([JsonDump(r) EXCEPT !["last_update_at"] = <<>>]) :
            r \in {x \in StoredRecords : x.last_reset_at = 0 /\ x.last_update_at = 0}}

\* the second sensor is not followed
NoPeer == [followed |-> FALSE]

\* no job is running
NoThreads == <<>>

PreKind(s) == IF s = None THEN "none" ELSE IF HasUsage(s) THEN "full" ELSE "partial"

PreUsage(s) == IF s # None /\ HasUsage(s) THEN s["usage_in_sec"] ELSE 0

\* the history record of an operation op run from record s
Last(op, s, old, new, t0, t1, outcome) ==
    [op |-> op, pre_kind |-> PreKind(s), pre_usage |-> PreUsage(s),
     old |-> old, new |-> new, t0 |-> t0, t1 |-> t1, save |-> outcome]

Init ==
    /\ file \in InitialFiles
    /\ state = LoadPersisted(file)
    /\ now = ClockStart
    /\ last = Last("init", None, NoState, NoState, 0, 0, "none")
    /\ deltas = PreUsage(LoadPersisted(file))
    /\ savesOk = TRUE
    /\ unit = DEFAULT_UNIT_OF_MEASUREMENT
    /\ peer = NoPeer
    /\ threads = NoThreads

----------------------------------------------------------------------------
(* Actions *)

\* the process restarts: a new CumulativeUsageSensor on the same path
Restart ==
    /\ state' = LoadPersisted(file)
    /\ last' = Last("restart", state, NoState, NoState, 0, 0, "none")
    /\ UNCHANGED <<file, now, deltas, savesOk, setup>>

\* the reset_timer service
ResetTimer ==
    \E n1 \in now..MaxClock :
    \E n2 \in n1..MaxClock :
    \E outcome \in SaveOutcomes :
        /\ state' = AfterSave(ResetState(n1, n2), outcome)
        /\ file' = SavePersisted(ResetState(n1, n2), file, outcome)
        /\ now' = n2
        /\ last' = Last("reset", state, NoState, NoState, 0, 0, outcome)
        /\ savesOk' = (savesOk /\ outcome = "ok")
        /\ deltas' = 0
        /\ UNCHANGED setup

\* a state_changed notification that the tracker passes to
\* _handle_state_change; n1, n2 are the clock readings of _default_state
\* (taken only when it runs), n3 the reading stored in last_update_at
NotifyForwarded ==
    \E old \in EntityStates, new \in EntityStates :
        /\ Matches(old, new)
        /\ HandlerEntry(old, new) = "entered"
        /\ \E t0 \in 0..MaxTs, t1 \in 0..MaxTs :
           \E n3 \in now..MaxClock :
           \E n1 \in (IF NeedsDefault(state) THEN now..n3 ELSE {n3}) :
           \E n2 \in n1..n3 :
           \E outcome \in SaveOutcomes :
            /\ LET s == HandleStateChange(state, t0, t1, n1, n2, n3) IN
                /\ Abs(s["usage_in_sec"]) <= MaxUsage
                /\ state' = AfterSave(s, outcome)
                /\ file' = SavePersisted(s, file, outcome)
            /\ now' = n3
            /\ last' = Last("apply", state, old, new, t0, t1, outcome)
            /\ savesOk' = (savesOk /\ outcome = "ok")
            /\ deltas' = IF savesOk' THEN deltas + (t1 - t0) ELSE 0
            /\ UNCHANGED setup

\* a state_changed notification that the tracker filters out; its
\* timestamps are never read
NotifyDropped ==
    \E old \in EntityStates, new \in EntityStates :
        /\ ~Matches(old, new)
        /\ last' = Last("dropped", state, old, new, 0, 0, "none")
        /\ UNCHANGED <<state, file, now, deltas, savesOk, setup>>

\* Home Assistant reads native_value and extra_state_attributes
ReadMeasurement ==
    /\ state' = RecordAfterRead(state)
    /\ last' = Last("read", state, NoState, NoState, 0, 0, "none")
    /\ UNCHANGED <<file, now, deltas, savesOk, setup>>

Next ==
    Restart \/ ResetTimer \/ NotifyForwarded \/ NotifyDropped \/ ReadMeasurement

Spec == Init /\ [][Next]_vars

----------------------------------------------------------------------------
(* The handler called with a missing side *)

\* _handle_state_change is called with old_state or new_state None; the
\* tracker of async_added_to_hass never does so, a direct caller may
HandleMissingSide ==
    \E old \in EntityStates, new \in EntityStates :
        /\ old = NoState \/ new = NoState
        /\ HandlerEntry(old, new) # "entered"
        /\ last' = Last(HandlerEntry(old, new), state, old, new, 0, 0, "none")
        /\ UNCHANGED <<state, file, now, deltas, savesOk, setup>>

NextHandler == Next \/ HandleMissingSide

SpecHandler == Init /\ [][NextHandler]_vars

----------------------------------------------------------------------------
(* Two sensors of the platform *)

NoId == "None"          \* unique_id is not configured (None)
NoPath == "None"        \* file_path is not configured (None)

\* configurations of two sensors that monitor different entities
ConfigsA ==
    [unique_id : {NoId, "uid_a"}, entity_id : {"switch.a"},
     filepath : {NoPath, "/data/a.json"}]

ConfigsB ==
    [unique_id : {NoId, "uid_b"}, entity_id : {"switch.b"},
     filepath : {NoPath, "/data/b.json"}]

\* self._unique_id (line 89)
UniqueId(c) ==
    IF c.unique_id # NoId THEN <<c.unique_id>>
    ELSE <<c.entity_id, "_cumulative_usage">>

\* self._filepath (line 93): the default is formatted from the unique_id
\* argument, not from self._unique_id
Filepath(c) ==
    IF c.filepath # NoPath THEN <<c.filepath>>
    ELSE <<"/config/custom_components/cumulative_usage/data/d_",
           c.unique_id, ".json">>

SamePath == Filepath(peer.a) = Filepath(peer.b)

\* what is stored at the second sensor's path
PeerFile == IF SamePath THEN file ELSE peer.file

InitPeers ==
    /\ file = NoFile
    /\ state = LoadPersisted(file)
    /\ now = ClockStart
    /\ last = Last("init", None, NoState, NoState, 0, 0, "none")
    /\ deltas = 0
    /\ savesOk = TRUE
    /\ unit = DEFAULT_UNIT_OF_MEASUREMENT
    /\ \E a \in ConfigsA, b \in ConfigsB :
          peer = [followed |-> TRUE, a |-> a, b |-> b,
                  state |-> LoadPersisted(NoFile), file |-> NoFile]
    /\ threads = NoThreads

\* reset_timer of the second sensor
PeerResetTimer ==
    \E n1 \in now..MaxClock :
    \E n2 \in n1..MaxClock :
    \E outcome \in SaveOutcomes :
        LET r == ResetState(n1, n2) IN
        /\ peer' = [peer EXCEPT
                      !.state = AfterSave(r, outcome),
                      !.file = IF SamePath THEN @
                               ELSE SavePersisted(r, @, outcome)]
        /\ file' = IF SamePath THEN SavePersisted(r, file, outcome) ELSE file
        /\ now' = n2
        /\ last' = Last("peer_reset", state, NoState, NoState, 0, 0, outcome)
        /\ UNCHANGED <<state, deltas, savesOk, unit, threads>>

\* the second sensor is constructed again on its path
PeerRestart ==
    /\ peer' = [peer EXCEPT !.state = LoadPersisted(PeerFile)]
    /\ last' = Last("peer_restart", state, NoState, NoState, 0, 0, "none")
    /\ UNCHANGED <<state, file, now, deltas, savesOk, unit, threads>>

NextPeers == Restart \/ ResetTimer \/ PeerResetTimer \/ PeerRestart

SpecPeers == InitPeers /\ [][NextPeers]_vars

----------------------------------------------------------------------------
(* Jobs of the executor pool *)

(* reset_timer and _handle_state_change are plain functions, neither       *)
(* coroutines nor @callback: Home Assistant runs each call as a job of     *)
(* its thread pool, and the class takes no lock.  A job is followed        *)
(* through three points: the read of usage_in_sec in line 157, the store   *)
(* of line 157 with the stamp of line 158, and _save_persisted.  The       *)
(* record here always holds usage_in_sec and every save succeeds.          *)

Jobs == {1, 2}

IdleJob == [pc |-> "idle", op |-> "none", diff |-> 0, tmp |-> 0,
            stale |-> FALSE]

InitThreads ==
    /\ file \in {JsonFile(JsonDump(r)) :
                    r \in {x \in StoredRecords :
                              x.last_reset_at <= x.last_update_at}}
    /\ state = LoadPersisted(file)
    /\ now = ClockStart
    /\ last = Last("init", None, NoState, NoState, 0, 0, "none")
    /\ deltas = PreUsage(LoadPersisted(file))
    /\ savesOk = TRUE
    /\ unit = DEFAULT_UNIT_OF_MEASUREMENT
    /\ peer = NoPeer
    /\ threads = [j \in Jobs |-> IdleJob]

\* a job enters _handle_state_change: diff is computed (line 154) and the
\* left side of += reads self._state['usage_in_sec']
JobHandleLoad ==
    \E j \in Jobs, t0 \in 0..MaxTs, t1 \in 0..MaxTs :
        /\ threads[j].pc = "idle"
        /\ ~NeedsDefault(state)
        /\ threads' = [threads EXCEPT ![j] =
                          [pc |-> "store", op |-> "apply", diff |-> t1 - t0,
                           tmp |-> state["usage_in_sec"], stale |-> FALSE]]
        /\ UNCHANGED <<state, file, now, last, deltas, savesOk, unit, peer>>

\* the job stores the sum into the dict it read from (no longer
\* self._state if reset_timer replaced it meanwhile) and stamps
\* self._state['last_update_at'] (line 158)
JobHandleStore ==
    \E j \in Jobs, n \in now..MaxClock :
        /\ threads[j].pc = "store"
        /\ state' = [(IF threads[j].stale THEN state
                      ELSE [state EXCEPT !["usage_in_sec"] =
                                threads[j].tmp + threads[j].diff])
                     EXCEPT !["last_update_at"] = n]
        /\ now' = n
        /\ threads' = [threads EXCEPT ![j].pc = "save"]
        /\ UNCHANGED <<file, last, deltas, savesOk, unit, peer>>

\* a job enters reset_timer and assigns the new dict (lines 140-144)
JobResetAssign ==
    \E j \in Jobs :
    \E n1 \in now..MaxClock :
    \E n2 \in n1..MaxClock :
        /\ threads[j].pc = "idle"
        /\ state' = ResetState(n1, n2)
        /\ now' = n2
        /\ threads' = [k \in Jobs |->
                          IF k = j
                          THEN [IdleJob EXCEPT !.pc = "save", !.op = "reset"]
                          ELSE IF threads[k].pc = "store"
                               THEN [threads[k] EXCEPT !.stale = TRUE]
                               ELSE threads[k]]
        /\ UNCHANGED <<file, last, deltas, savesOk, unit, peer>>

\* the job reaches _save_persisted and dumps self._state as it is now
JobSave ==
    \E j \in Jobs :
        /\ threads[j].pc = "save"
        /\ file' = SavePersisted(state, file, "ok")
        /\ threads' = [threads EXCEPT ![j].pc = "done"]
        /\ UNCHANGED <<state, now, last, deltas, savesOk, unit, peer>>

NextThreads == JobHandleLoad \/ JobHandleStore \/ JobResetAssign \/ JobSave

SpecThreads == InitThreads /\ [][NextThreads]_vars

----------------------------------------------------------------------------
(* Reading the value in every unit *)

\* usages, in seconds, found in the file when the process starts
ConvertSeconds == {0, 45, 90, 3600}

InitConvert ==
    /\ file \in {JsonFile(JsonDump([r EXCEPT !["usage_in_sec"] =
                                       c * Resolution])) :
                    r \in {x \in StoredRecords :
                              x.last_reset_at <= x.last_update_at},
                    c \in ConvertSeconds}
    /\ state = LoadPersisted(file)
    /\ now = ClockStart
    /\ last = Last("init", None, NoState, NoState, 0, 0, "none")
    /\ deltas = PreUsage(LoadPersisted(file))
    /\ savesOk = TRUE
    /\ unit \in Units
    /\ peer = NoPeer
    /\ threads = NoThreads

NextConvert == ReadMeasurement \/ Restart

SpecConvert == InitConvert /\ [][NextConvert]_vars

----------------------------------------------------------------------------
(* Properties *)

Delta == last.t1 - last.t0

SaveFailed == last.save \in {"open_failed", "write_failed"}

\* the file holds a JSON object with all three fields
FileComplete(f) ==
    /\ f.exists
    /\ f.json
    /\ Fields \subseteq DOMAIN f.obj

\* C1: while every save has succeeded, the usage held equals the sum of
\* the deltas delivered since the last reset (or since the record the
\* process first found), whatever restarts happened in between.
C1_RestartKeepsSum ==
    (savesOk /\ HasUsage(state)) => state["usage_in_sec"] = deltas

\* two deltas have been delivered to a record created in this run, and the
\* process has just restarted on the saved file
C1_Witness ==
    /\ savesOk
    /\ last.op = "restart"
    /\ HasUsage(state)
    /\ state["last_reset_at"] >= ClockStart
    /\ deltas = 2

\* C2: on a record that holds usage_in_sec, a forwarded interval with
\* t1 >= t0 raises usage_in_sec by exactly t1 - t0 and stamps
\* last_update_at with the clock reading of the call, not with t1.
C2_ApplyAddsDelta ==
    (last.op = "apply" /\ last.pre_kind = "full" /\ last.t1 >= last.t0) =>
        /\ HasUsage(state)
        /\ state["usage_in_sec"] = last.pre_usage + Delta
        /\ state["last_update_at"] = now

C2_Witness ==
    /\ last.op = "apply"
    /\ last.pre_kind = "full"
    /\ last.pre_usage = 1
    /\ last.t1 > last.t0
    /\ state["usage_in_sec"] = 2
    /\ state["last_update_at"] # last.t1

\* C3: usage_in_sec is never negative.
C3_UsageNonNegative ==
    HasUsage(state) => state["usage_in_sec"] >= 0

C5_LoadRejectsIncomplete ==
    (last.op \in {"init", "restart"} /\ ~FileComplete(file)) => state = None

\* C6: a forwarded interval that finds no record, or a record without
\* usage_in_sec, leaves a complete record whose usage is exactly t1 - t0
\* and whose two timestamps are clock readings of this call, nothing of
\* the previous dict remaining.
C6_ApplyInitializesFresh ==
    [][(last'.op = "apply" /\ NeedsDefault(state)) =>
        /\ IsFull(state')
        /\ state'["usage_in_sec"] = last'.t1 - last'.t0
        /\ now <= state'["last_reset_at"]
        /\ state'["last_reset_at"] <= state'["last_update_at"]
        /\ state'["last_update_at"] = now']_vars

\* a dict loaded without usage_in_sec has just received an interval
C6_Witness ==
    /\ last.op = "apply"
    /\ last.pre_kind = "partial"
    /\ Delta = 1
    /\ state["usage_in_sec"] = 1

\* C7 as stated: after reset the usage is 0, both timestamps are the same
\* reading of the clock, and the file holds that record.
C7_ResetExact ==
    last.op = "reset" =>
        /\ IsFull(state)
        /\ state["usage_in_sec"] = 0
        /\ state["last_reset_at"] = state["last_update_at"]
        /\ state["last_update_at"] = now
        /\ LoadPersisted(file) = state

\* C7 amended: from any record, reset leaves usage 0 with last_reset_at
\* and last_update_at two successive clock readings of the call, and the
\* file holds that record when the save succeeded.
C7_ResetZeroes ==
    [][last'.op = "reset" =>
        /\ IsFull(state')
        /\ state'["usage_in_sec"] = 0
        /\ now <= state'["last_reset_at"]
        /\ state'["last_reset_at"] <= state'["last_update_at"]
        /\ state'["last_update_at"] = now'
        /\ (last'.save = "ok" => LoadPersisted(file') = state')]_vars

\* a second reset in a row, at a later clock reading, of a record that had
\* been reset by the first
C7_Witness ==
    /\ last.op = "reset"
    /\ last.pre_kind = "full"
    /\ last.pre_usage = 0
    /\ last.save = "ok"
    /\ state["last_reset_at"] > ClockStart
    /\ state["usage_in_sec"] = 0

\* C8: once a save has failed, the record in memory is still what the
\* operation computes: a forwarded interval adds its delta to the usage
\* held before (to 0 if none was held) and a reset leaves 0, in the call
\* whose save failed and in every later call.
C8_SaveFailureKeepsMemory ==
    (~savesOk /\ last.op \in {"apply", "reset"}) =>
        /\ HasUsage(state)
        /\ state["last_update_at"] = now
        /\ last.op = "apply" =>
              state["usage_in_sec"] = last.pre_usage + Delta
        /\ last.op = "reset" => state["usage_in_sec"] = 0

\* an interval is added to a record whose own save had failed, and this
\* save fails too
C8_Witness ==
    /\ ~savesOk
    /\ SaveFailed
    /\ last.op = "apply"
    /\ last.pre_kind = "full"
    /\ last.pre_usage = 1
    /\ Delta = 1
    /\ state["usage_in_sec"] = 2
    /\ LoadPersisted(file) = None

\* C9: a record written by a successful save is read back equal in all
\* three fields.
C9_RoundTrip ==
    (last.op \in {"apply", "reset"} /\ last.save = "ok") =>
        LoadPersisted(file) = state

\* a saved record with a whole-second timestamp, a fractional one and a
\* negative usage
C9_Witness ==
    /\ last.op = "apply"
    /\ last.save = "ok"
    /\ state["last_reset_at"] % Resolution = 0
    /\ state["last_update_at"] % Resolution # 0
    /\ state["usage_in_sec"] < 0

\* C10 as stated: a notification whose old and new states are both on or
\* off reaches _handle_state_change, whichever the direction.
C10_ForwardedBothDirections ==
    (/\ last.op \in {"apply", "dropped"}
     /\ last.old \in {STATE_ON, STATE_OFF}
     /\ last.new \in {STATE_ON, STATE_OFF}) => last.op = "apply"

\* C10 amended: a notification reaches _handle_state_change exactly when
\* its old state is on and its new state is off; the handler then adds
\* new.last_changed - old.last_changed.
C10_ForwardedOnToOffOnly ==
    [][(last'.op \in {"apply", "dropped"} /\ last' # last) =>
        /\ last'.op = "apply" <=> (last'.old = STATE_ON /\ last'.new = STATE_OFF)
        /\ last'.op = "dropped" => state' = state /\ file' = file
        /\ (last'.op = "apply" /\ HasUsage(state)) =>
              /\ HasUsage(state')
              /\ state'["usage_in_sec"] =
                    state["usage_in_sec"] + (last'.t1 - last'.t0)]_vars

\* an on -> off notification has been added; an off -> on one is dropped
C10_Witness ==
    /\ last.op = "dropped"
    /\ last.old = STATE_OFF
    /\ last.new = STATE_ON
    /\ last.pre_kind = "full"
    /\ last.pre_usage = 1

Defined == {STATE_ON, STATE_OFF}

\* C11: a notification whose old or new state is not on/off is not
\* forwarded: the record, the file and the reported value stay as they are.
C11_UndefinedStateDropped ==
    [][(/\ last'.op \in {"apply", "dropped"}
        /\ (last'.old \notin Defined \/ last'.new \notin Defined)) =>
        /\ last'.op = "dropped"
        /\ state' = state
        /\ file' = file
        /\ NativeValue(state', unit') = NativeValue(state, unit)]_vars

\* unavailable -> off is dropped on a record that holds usage
C11_Witness ==
    /\ last.op = "dropped"
    /\ last.old = STATE_UNAVAILABLE
    /\ last.new = STATE_OFF
    /\ last.pre_kind = "full"
    /\ state["usage_in_sec"] = 1

\* C14: in every reachable state native_value and extra_state_attributes
\* return without raising, and native_value is None exactly when there is
\* no record.
C14_ReadsNeverFault ==
    /\ NativeValue(state, unit).kind # "fault"
    /\ ExtraStateAttributes(state).kind # "fault"
    /\ (NativeValue(state, unit).kind = "unavailable") <=> (state = None)

\* C15: a forwarded interval with t1 < t0 adds the negative difference
\* t1 - t0 to usage_in_sec as it is.
C15_NegativeDeltaAdded ==
    (last.op = "apply" /\ last.t1 < last.t0) =>
        /\ HasUsage(state)
        /\ Delta < 0
        /\ state["usage_in_sec"] = last.pre_usage + Delta

C15_Witness ==
    /\ last.op = "apply"
    /\ last.pre_kind = "full"
    /\ last.pre_usage = 0
    /\ last.t0 = 1
    /\ last.t1 = 0
    /\ state["usage_in_sec"] = 0 - 1

\* C18: the same interval forwarded twice in a row to a record holding
\* usage raises usage_in_sec by twice t1 - t0.
C18_SameIntervalCountsTwice ==
    [][(/\ last.op = "apply"
        /\ last.pre_kind = "full"
        /\ last'.op = "apply"
        /\ last'.t0 = last.t0
        /\ last'.t1 = last.t1) =>
        /\ HasUsage(state')
        /\ state'["usage_in_sec"] = last.pre_usage + 2 * (last.t1 - last.t0)]_vars

\* the interval (0, 1) has been added to a record created in this run that
\* already held 1
C18_Witness ==
    /\ last.op = "apply"
    /\ last.t0 = 0
    /\ last.t1 = 1
    /\ last.pre_kind = "full"
    /\ last.pre_usage = 1
    /\ savesOk
    /\ deltas = 2
    /\ state["last_reset_at"] = state["last_update_at"]
    /\ state["last_reset_at"] >= ClockStart

\* C19: within one process, a forwarded interval on a record holding usage
\* leaves last_reset_at alone, last_reset_at changes only in reset_timer
\* and in the default initialization, and reading the measurement changes
\* neither the record nor the file.
C19_ResetStampFrame ==
    [][/\ (last'.op = "apply" /\ HasUsage(state)) =>
              /\ state' # None
              /\ state'["last_reset_at"] = state["last_reset_at"]
       /\ last'.op = "read" => (state' = state /\ file' = file)
       /\ (/\ last'.op # "restart"
           /\ state # None
           /\ state' # None
           /\ state'["last_reset_at"] # state["last_reset_at"]) =>
              \/ last'.op = "reset"
              \/ last'.op = "apply" /\ NeedsDefault(state)]_vars

\* the measurement has been read from a record that was reset in this run
\* and updated later
C19_Witness ==
    /\ last.op = "read"
    /\ HasUsage(state)
    /\ state["usage_in_sec"] = 1
    /\ state["last_reset_at"] >= ClockStart
    /\ state["last_update_at"] > state["last_reset_at"]

\* C20: a successful save leaves the file equal to the whole record, a
\* failed save leaves the file loading as before or as nothing, and a
\* restart after a failed save recovers a complete record or nothing.
C20_RestartRecoversSavedOrAbsent ==
    [][/\ last'.save = "ok" => LoadPersisted(file') = state'
       /\ last'.save \in {"open_failed", "write_failed"} =>
              LoadPersisted(file') \in {LoadPersisted(file), None}
       /\ (last'.op = "restart" /\ ~savesOk) =>
              (state' = None \/ IsFull(state'))]_vars

\* the part of C20 that concerns the saves alone
SavesKeepFileWhole ==
    [][/\ last'.save = "ok" => LoadPersisted(file') = state'
       /\ last'.save \in {"open_failed", "write_failed"} =>
              LoadPersisted(file') \in {LoadPersisted(file), None}]_vars

\* C12: called with a missing side, _handle_state_change returns
\* without raising and leaves the record and the file as they are.
C12_MissingSideIsNoOp ==
    [][(last'.old = NoState \/ last'.new = NoState) /\
       last'.op \in {"raised", "returned"} =>
        /\ last'.op = "returned"
        /\ state' = state
        /\ file' = file]_vars

\* C13: two sensors on different entities, both with the default file
\* path, have different paths, so a reset of one never changes the file
\* of the other, with or without configured unique ids.
C13_PeersDoNotInterfere ==
    [][(peer.a.filepath = NoPath /\ peer.b.filepath = NoPath) =>
        /\ last'.op = "peer_reset" =>
              (Filepath(peer.a) # Filepath(peer.b) /\ file' = file)
        /\ last'.op = "reset" =>
              (Filepath(peer.a) # Filepath(peer.b) /\ PeerFile' = PeerFile)]_vars

AllDone == \A j \in Jobs : threads[j].pc = "done"

\* the usage left by the two operations run one after the other, in
\* either order, from a record holding deltas
SequentialUsage ==
    LET a == threads[1]
        b == threads[2]
    IN IF a.op = "apply" /\ b.op = "apply"
       THEN {deltas + a.diff + b.diff}
       ELSE IF a.op = "reset" /\ b.op = "reset"
       THEN {0}
       ELSE {0, IF a.op = "apply" THEN a.diff ELSE b.diff}

\* C16: two operations delivered at the same time leave the record and
\* the file as some sequential order of the two would.
C16_Serializable ==
    AllDone =>
        /\ HasUsage(state)
        /\ state["usage_in_sec"] \in SequentialUsage
        /\ LoadPersisted(file) = state

\* the value read is q seconds for each p units of usage: num/den * p = c/Resolution * q
ValueIs(v, c, p, q) == v.num * p * Resolution = c * q * v.den

\* C17 as stated: h divides the seconds by 3600, m by 60, and every unit
\* other than h, m, s returns the seconds as they are.
C17_UnknownUnitIsSeconds ==
    HasUsage(state) =>
        LET v == NativeValue(state, unit)
            c == state["usage_in_sec"]
        IN /\ v.kind = "value"
           /\ unit = "h" => ValueIs(v, c, 3600, 1)
           /\ unit = "m" => ValueIs(v, c, 60, 1)
           /\ unit \notin {"h", "m"} => ValueIs(v, c, 1, 1)

\* C17 amended: the unit is lower-cased first; h or H divides the seconds
\* by 3600, m or M by 60, every other unit returns the seconds; 3600 s
\* read in h is 1, 90 s in m is 1.5, 45 s in s or x is 45.
C17_ConvertByUnit ==
    HasUsage(state) =>
        LET v == NativeValue(state, unit)
            c == state["usage_in_sec"]
        IN /\ v.kind = "value"
           /\ unit \in {"h", "H"} => ValueIs(v, c, 3600, 1)
           /\ unit \in {"m", "M"} => ValueIs(v, c, 60, 1)
           /\ unit \notin {"h", "H", "m", "M"} => ValueIs(v, c, 1, 1)
           /\ (unit = "h" /\ c = 3600 * Resolution) => v.num = v.den
           /\ (unit = "m" /\ c = 90 * Resolution) => 2 * v.num = 3 * v.den
           /\ (unit \in {"s", "x"} /\ c = 45 * Resolution) =>
                 v.num = 45 * v.den

\* 3600 s have been read with the unit configured as H
C17_Witness ==
    /\ last.op = "read"
    /\ unit = "H"
    /\ HasUsage(state)
    /\ state["usage_in_sec"] = 3600 * Resolution
    /\ NativeValue(state, unit).num = NativeValue(state, unit).den

====
